---- MODULE Spec2Model ----
(***************************************************************************)
(* Model of src/main.py: the job that searches recent mentions, drops the  *)
(* posts whose Id is already in the BigQuery table and appends the rest.   *)
(*                                                                         *)
(* A run is one execution of the script (module initialisation followed by *)
(* main()).  Every external call of a run is one step: loading a token,    *)
(* the search, the query of existing Ids (with the filter that follows     *)
(* it), and the load job.  The table is the only state shared by runs.     *)
(***************************************************************************)
EXTENDS Integers, Sequences, FiniteSets

\* ------------------------------------------------------------------ bounds
\* Number of runs of the job that are followed.
MaxRuns == 2
\* Posts that exist upstream are numbered 1..MaxId.
MaxId == 2
\* max_results of the search (100 in the source), scaled down.
MaxResults == 2
\* LIMIT of the query of existing Ids (500 in the source), scaled down.
LIMIT == 2

Runs == 1..MaxRuns

\* ------------------------------------------------------- program constants
\* token_paths has two entries (BEARER_TOKEN_1 / BEARER_TOKEN_2).
NumTokens == 2
\* Offset of America/Guayaquil from UTC, in hours.
UtcOffset == 5

\* Python's None, as a token and as the value buscar_tweets returns in place
\* of a DataFrame; a DataFrame is held as its sequence of rows.
None == "None"
NoFrame == [none |-> TRUE, rows |-> << >>]
DataFrame(rows) == [none |-> FALSE, rows |-> rows]

\* --------------------------------------------------------------- upstream
\* str(t.id): decimal digits of a post identifier.
Digit(d) ==
  CASE d = 0 -> "0" [] d = 1 -> "1" [] d = 2 -> "2" [] d = 3 -> "3"
    [] d = 4 -> "4" [] d = 5 -> "5" [] d = 6 -> "6" [] d = 7 -> "7"
    [] d = 8 -> "8" [] OTHER -> "9"

RECURSIVE str(_)
str(n) == IF n < 10 THEN <<Digit(n)>> ELSE str(n \div 10) \o <<Digit(n % 10)>>

\* A post as the API returns it.  Post 1 is written by an author the
\* response's includes resolve, the other posts by authors it does not;
\* created_at is an instant in whole hours (UTC), later for later posts.
\* Author ids are written as their digits, so that a column holding either
\* a username or an author id holds values of one kind.
Tweet(i) ==
  [id |-> i,
   author_id |-> IF i = 1 THEN "1001" ELSE "1002",
   created_at |-> 10 + i]

\* tweets.includes["users"] of every response.
IncludedUsers == { [id |-> "1001", username |-> "ana"] }

\* tweets.data of a response: up to max_results posts (the API is not
\* trusted to return each post once).
RECURSIVE SeqsUpTo(_, _)
SeqsUpTo(S, n) ==
  IF n = 0 THEN { <<>> }
  ELSE LET shorter == SeqsUpTo(S, n - 1)
       IN  shorter \cup { Append(s, x) : s \in { t \in shorter : Len(t) = n - 1 }, x \in S }

TweetData == SeqsUpTo({ Tweet(i) : i \in 1..MaxId }, MaxResults)

\* What search_recent_tweets does: raise one of three kinds of error, or
\* return a response.  A response carries one page of posts and, in its
\* meta, a next_token when the API has more pages to give.
SearchResults ==
  { [kind |-> k, data |-> <<>>, next_token |-> FALSE] :
      k \in {"TooManyRequests", "TweepyException", "Exception"} }
    \cup { [kind |-> "response", data |-> d, next_token |-> FALSE] : d \in TweetData }
    \cup { [kind |-> "response", data |-> d, next_token |-> TRUE] :
              d \in TweetData \ { << >> } }

\* `tweets` before search_recent_tweets has returned.
NoResponse == [kind |-> "unassigned", data |-> << >>, next_token |-> FALSE]

\* What a token source holds: the environment variable, or the state of the
\* .env file.
TokenSources == {"env", "file", "no_file", "no_line", "unreadable"}

VARIABLES
  store,           \* rows of the destination table, in append order
  pc,              \* where each run is
  status,          \* how each run's process ended
  idx,             \* index of the token the run is at
  tweets,          \* response of the last search_recent_tweets of the run
  df,              \* DataFrame returned by the last search of the run
  ids_existentes,  \* set returned by obtener_ids_existentes
  df_nuevo,        \* rows of df that passed the filter
  log,             \* records the run's logger emitted
  calls,           \* external calls the run issued, with their outcome
  \* validate_secrets.py, the script that checks the repository secrets:
  environ,         \* the secrets in the script's environment
  results,         \* its `results` dictionary
  vpc,             \* where the script is
  printed,         \* the lines it printed
  exit_status      \* the status of sys.exit, -1 until the script exits

vvars == <<environ, results, vpc, printed, exit_status>>

vars == <<store, pc, status, idx, tweets, df, ids_existentes, df_nuevo, log, calls,
          environ, results, vpc, printed, exit_status>>

\* ---------------------------------------------------------------- logging
Rec(level, msg, i) == [level |-> level, msg |-> msg, idx |-> i]

Emit(r, recs) == log' = [log EXCEPT ![r] = @ \o recs]

Call(r, c) == calls' = [calls EXCEPT ![r] = Append(@, c)]

\* ----------------------------------------------------------- cargar_token
cargar_token(src) == IF src \in {"env", "file"} THEN "token" ELSE None

cargar_token_log(src) ==
  CASE src = "no_file"    -> << Rec("WARNING", "Archivo token no existe", 0) >>
    [] src = "no_line"    -> << Rec("WARNING", "BEARER_TOKEN no encontrado", 0) >>
    [] src = "unreadable" -> << Rec("ERROR", "Error al leer el token", 0) >>
    [] OTHER              -> << >>

\* ---------------------------------------------------------- buscar_tweets
users == [ i \in { u.id : u \in IncludedUsers } |->
             (CHOOSE u \in IncludedUsers : u.id = i).username ]

\* Variant: an author the includes do not resolve becomes "unknown".
RowUnknown(t) ==
  [Id |-> str(t.id),
   Autor |-> IF t.author_id \in DOMAIN users THEN users[t.author_id] ELSE "unknown",
   Created |-> t.created_at - UtcOffset]

\* One row of the DataFrame (Text and the metric columns play no part in
\* what is decided and are left out).
Row(t) ==
  [Id |-> str(t.id),
   Autor |-> IF t.author_id \in DOMAIN users THEN users[t.author_id] ELSE t.author_id,
   Created |-> t.created_at - UtcOffset]

\* The value buscar_tweets returns: None on any error, the empty DataFrame
\* when the response has no data, else one row per post, in order.
buscar_tweets(res) ==
  IF res.kind # "response" THEN NoFrame
  ELSE DataFrame([ i \in 1..Len(res.data) |-> Row(res.data[i]) ])

buscar_tweets_log(res) ==
  CASE res.kind = "TooManyRequests" -> << Rec("ERROR", "Limite de peticiones alcanzado", 0) >>
    [] res.kind = "TweepyException" -> << Rec("ERROR", "Error en la API de Twitter", 0) >>
    [] res.kind = "Exception"       -> << Rec("ERROR", "Error inesperado en buscar_tweets", 0) >>
    [] res.data = << >>             -> << Rec("INFO", "No se encontraron tweets", 0) >>
    [] OTHER                        -> << Rec("INFO", "tweets obtenidos", 0) >>

\* ------------------------------------------------- obtener_ids_existentes
\* ORDER BY Created DESC LIMIT n: any n rows such that no row left out is
\* more recent than a row taken (rows of equal Created come in any order).
TopByCreated(table, n) ==
  { W \in SUBSET DOMAIN table :
      /\ Cardinality(W) = (IF Len(table) < n THEN Len(table) ELSE n)
      /\ \A i \in W : \A j \in DOMAIN table \ W : table[j].Created <= table[i].Created }

\* Variant: only the most recent row is read.
obtener_ids_solo_uno(table) ==
  { { table[i].Id : i \in W } : W \in TopByCreated(table, 1) }

\* The sets the function can return when the query succeeds.
obtener_ids_existentes(table) ==
  { { table[i].Id : i \in W } : W \in TopByCreated(table, LIMIT) }

\* ------------------------------------------------------------ the filter
\* df[~df["Id"].isin(ids)]: boolean mask, then the rows where it is true.
\* Variant: the rows where the mask is false.
RECURSIVE BoolIndexInvertido(_, _)
BoolIndexInvertido(frame, mask) ==
  IF frame = << >> THEN << >>
  ELSE LET rest == BoolIndexInvertido(Tail(frame), Tail(mask))
       IN  IF Head(mask) THEN rest ELSE << Head(frame) >> \o rest

RECURSIVE BoolIndex(_, _)
BoolIndex(frame, mask) ==
  IF frame = << >> THEN << >>
  ELSE LET rest == BoolIndex(Tail(frame), Tail(mask))
       IN  IF Head(mask) THEN << Head(frame) >> \o rest ELSE rest

isin(frame, ids) == [ i \in 1..Len(frame) |-> frame[i].Id \in ids ]

\* Variant: the mask is not negated (the rows already stored are kept).
FiltrarSinNegar(frame, ids) == BoolIndex(frame, isin(frame, ids))

Filtrar(frame, ids) ==
  BoolIndex(frame, [ i \in 1..Len(frame) |-> ~ isin(frame, ids)[i] ])

\* Variant: WRITE_TRUNCATE, the frame's rows replace the table's.
carga_truncate(table, frame) == frame

\* Variant: the table refuses a row whose Id it already holds.
RECURSIVE carga_unica(_, _)
carga_unica(table, frame) ==
  IF frame = << >> THEN table
  ELSE IF \E i \in DOMAIN table : table[i].Id = Head(frame).Id
       THEN carga_unica(table, Tail(frame))
       ELSE carga_unica(Append(table, Head(frame)), Tail(frame))

\* Variant: only the first row of the frame lands.
carga_parcial(table, frame) == table \o << Head(frame) >>

\* WRITE_APPEND load job that completed: the frame's rows follow the table's.
load_table_from_dataframe(table, frame) == table \o frame

\* ------------------------------------------------- the tests made by main
\* Variant: None is not tested, the run goes on to the table.
after_search_sin_none(frame) ==
  IF frame.none THEN "query"
  ELSE IF frame.rows = << >> THEN "return"
  ELSE "query"

\* Variant: an empty DataFrame is not tested, the run goes on to the table.
after_search_sin_empty(frame) == IF frame.none THEN "continue" ELSE "query"

\* After the search: `if df is None: continue`, `if df.empty: return`.
after_search(frame) ==
  IF frame.none THEN "continue"
  ELSE IF frame.rows = << >> THEN "return"
  ELSE "query"

\* Variant: the load job is always started.
after_filter_siempre_carga(nuevo) == "load"

\* After the filter: `if df_nuevo.empty: return`.
after_filter(nuevo) == IF nuevo = << >> THEN "return" ELSE "load"

\* ------------------------------------------------------------------ state
\* An environment variable that is not set, or is set to a text.
Unset == [set |-> FALSE, value |-> << >>]
Set(text) == [set |-> TRUE, value |-> text]

\* `results` as validate_secrets creates it.
NoResults ==
  [BEARER_TOKEN_1 |-> FALSE, BEARER_TOKEN_2 |-> FALSE,
   GOOGLE_APPLICATION_CREDENTIALS_JSON |-> FALSE, BIGQUERY_TEST |-> FALSE,
   status |-> "FAILED"]

\* The validation script is not run.
ValidateIdle ==
  /\ environ = [BEARER_TOKEN_1 |-> Unset, BEARER_TOKEN_2 |-> Unset,
                GOOGLE_APPLICATION_CREDENTIALS_JSON |-> Unset]
  /\ results = NoResults
  /\ vpc = "idle"
  /\ printed = << >>
  /\ exit_status = -1

MainInit ==
  /\ store = << >>
  /\ pc = [r \in Runs |-> "idle"]
  /\ status = [r \in Runs |-> "not_started"]
  /\ idx = [r \in Runs |-> 0]
  /\ tweets = [r \in Runs |-> NoResponse]
  /\ df = [r \in Runs |-> NoFrame]
  /\ ids_existentes = [r \in Runs |-> {}]
  /\ df_nuevo = [r \in Runs |-> << >>]
  /\ log = [r \in Runs |-> << >>]
  /\ calls = [r \in Runs |-> << >>]

Init == MainInit /\ ValidateIdle

Finished(r) == pc[r] = "done"

\* Variant: the `return` is missing, the loop goes on with the next token.
ReturnSigue(r, recs) ==
  /\ idx' = [idx EXCEPT ![r] = IF @ < NumTokens THEN @ + 1 ELSE @]
  /\ pc' = [pc EXCEPT ![r] = IF idx[r] < NumTokens THEN "token" ELSE "done"]
  /\ status' = [status EXCEPT ![r] = IF idx[r] < NumTokens THEN @ ELSE "returned"]
  /\ Emit(r, recs)

\* `return` inside the loop: main ends normally.
Return(r, recs) ==
  /\ pc' = [pc EXCEPT ![r] = "done"]
  /\ status' = [status EXCEPT ![r] = "returned"]
  /\ idx' = idx
  /\ Emit(r, recs)

\* Variant: the loop is left at the first token that does not work.
ContinueStops(r, recs) == Return(r, recs)

\* Variant: after the last token the run waits instead of leaving the loop.
ContinueHangs(r, recs) ==
  /\ idx' = idx
  /\ pc' = [pc EXCEPT ![r] = IF idx[r] < NumTokens THEN "token" ELSE "waiting"]
  /\ status' = status
  /\ Emit(r, recs)

\* Variant: the same token is tried again.
ContinueRetries(r, recs) ==
  /\ idx' = idx
  /\ pc' = [pc EXCEPT ![r] = "token"]
  /\ status' = status
  /\ Emit(r, recs)

\* `continue` of the for loop: the next token, or the code after the loop
\* ("Ninguno de los Bearer Tokens funciono"), after which main returns.
Continue(r, recs) ==
  IF idx[r] < NumTokens
  THEN /\ idx' = [idx EXCEPT ![r] = @ + 1]
       /\ pc' = [pc EXCEPT ![r] = "token"]
       /\ status' = status
       /\ Emit(r, recs)
  ELSE /\ idx' = idx
       /\ pc' = [pc EXCEPT ![r] = "done"]
       /\ status' = [status EXCEPT ![r] = "returned"]
       /\ Emit(r, recs \o << Rec("ERROR", "Ninguno de los Bearer Tokens funciono", 0) >>)

\* The script starts: the BigQuery client is built at import time; if that
\* fails the exception is re-raised and main never runs.
Start(r) ==
  /\ pc[r] = "idle"
  /\ \E client_ok \in BOOLEAN :
       IF client_ok
       THEN /\ pc' = [pc EXCEPT ![r] = "token"]
            /\ status' = [status EXCEPT ![r] = "running"]
            /\ idx' = [idx EXCEPT ![r] = 1]
            /\ Emit(r, << Rec("INFO", "Cliente de BigQuery inicializado", 0) >>)
       ELSE /\ pc' = [pc EXCEPT ![r] = "done"]
            /\ status' = [status EXCEPT ![r] = "raised"]
            /\ idx' = idx
            /\ Emit(r, << Rec("ERROR", "No se pudo inicializar BigQuery", 0) >>)
  /\ UNCHANGED <<store, tweets, df, ids_existentes, df_nuevo, calls>>
  /\ UNCHANGED vvars

\* Runs of the scheduled job do not overlap: a run starts when the runs
\* before it have ended.
StartScheduled(r) ==
  /\ \A q \in Runs : q < r => Finished(q)
  /\ Start(r)

\* bearer_token = cargar_token(path, env_override_name=env_name)
LoadToken(r) ==
  /\ pc[r] = "token"
  /\ \E src \in TokenSources :
       IF cargar_token(src) = None
       THEN Continue(r, cargar_token_log(src)
                          \o << Rec("WARNING", "No se pudo cargar el token", idx[r]) >>)
       ELSE /\ pc' = [pc EXCEPT ![r] = "search"]
            /\ Emit(r, << Rec("INFO", "Usando Bearer Token", idx[r]) >>)
            /\ UNCHANGED <<idx, status>>
  /\ UNCHANGED <<store, tweets, df, ids_existentes, df_nuevo, calls>>
  /\ UNCHANGED vvars

\* df = buscar_tweets(tw_client), and the two tests that follow it.
Search(r) ==
  /\ pc[r] = "search"
  /\ \E res \in SearchResults :
       LET frame == buscar_tweets(res) IN
       /\ tweets' = [tweets EXCEPT ![r] = IF res.kind = "response" THEN res ELSE NoResponse]
       /\ df' = [df EXCEPT ![r] = frame]
       /\ Call(r, [op |-> "search", idx |-> idx[r],
                   result |-> IF frame.none THEN "none"
                              ELSE IF frame.rows = << >> THEN "empty" ELSE "batch"])
       /\ IF after_search(frame) = "continue"
          THEN Continue(r, buscar_tweets_log(res)
                             \o << Rec("WARNING", "Problema al consultar con Bearer Token", idx[r]) >>)
          ELSE IF after_search(frame) = "return"
          THEN Return(r, buscar_tweets_log(res)
                           \o << Rec("INFO", "No hay tweets nuevos para procesar", 0) >>)
          ELSE /\ pc' = [pc EXCEPT ![r] = "query"]
               /\ Emit(r, buscar_tweets_log(res))
               /\ UNCHANGED <<idx, status>>
  /\ UNCHANGED <<store, ids_existentes, df_nuevo>>
  /\ UNCHANGED vvars

\* ids_existentes = obtener_ids_existentes(table_id); df_nuevo = df[~isin];
\* and the test of df_nuevo.empty.
Query(r) ==
  /\ pc[r] = "query"
  /\ \E query_ok \in BOOLEAN :
       \E ids \in (IF query_ok THEN obtener_ids_existentes(store) ELSE { {} }) :
         LET nuevo == Filtrar(df[r].rows, ids)
             rec == IF query_ok THEN Rec("INFO", "Se recuperaron IDs de BigQuery", 0)
                    ELSE Rec("ERROR", "No se pudo obtener registros de BigQuery", 0)
         IN
         /\ ids_existentes' = [ids_existentes EXCEPT ![r] = ids]
         /\ df_nuevo' = [df_nuevo EXCEPT ![r] = nuevo]
         /\ Call(r, [op |-> "query", idx |-> idx[r],
                     result |-> IF query_ok THEN "ok" ELSE "error"])
         /\ IF after_filter(nuevo) = "return"
            THEN Return(r, << rec, Rec("INFO", "Todos los tweets ya existen", 0) >>)
            ELSE /\ pc' = [pc EXCEPT ![r] = "load"]
                 /\ Emit(r, << rec >>)
                 /\ UNCHANGED <<idx, status>>
  /\ UNCHANGED <<store, tweets, df>>
  /\ UNCHANGED vvars

\* client.load_table_from_dataframe(df_nuevo, ..., WRITE_APPEND); job.result()
\* A load job that fails appends nothing; its exception is caught by the
\* `except Exception` of the loop body.
Load(r) ==
  /\ pc[r] = "load"
  /\ \E job_ok \in BOOLEAN :
       /\ Call(r, [op |-> "load", idx |-> idx[r],
                   result |-> IF job_ok THEN "ok" ELSE "error"])
       /\ IF job_ok
          THEN /\ store' = load_table_from_dataframe(store, df_nuevo[r])
               /\ Return(r, << Rec("INFO", "tweets cargados correctamente", 0) >>)
          ELSE /\ store' = store
               /\ Continue(r, << Rec("ERROR", "Error usando Bearer Token", idx[r]) >>)
  /\ UNCHANGED <<tweets, df, ids_existentes, df_nuevo>>
  /\ UNCHANGED vvars

\* Exit status of the process: 1 when an exception left the script, else 0.
ExitCode(r) == IF status[r] = "raised" THEN 1 ELSE 0

Step(r) == LoadToken(r) \/ Search(r) \/ Query(r) \/ Load(r)

Next == \E r \in Runs : StartScheduled(r) \/ Step(r)

Spec == Init /\ [][Next]_vars

\* Every external call returns or raises: a run that has a step to take
\* takes it.  (Nothing makes the scheduler start a run.)
SpecFair == Spec /\ \A r \in Runs : WF_vars(Step(r))

\* Runs that may overlap: nothing in the script keeps a run from starting
\* while another is under way.
NextOverlap == \E r \in Runs : Start(r) \/ Step(r)

SpecOverlap == Init /\ [][NextOverlap]_vars

\* ====================================================== validate_secrets.py
mvars == <<store, pc, status, idx, tweets, df, ids_existentes, df_nuevo, log, calls>>

\* str.strip(): the text without its leading and trailing blanks.
RECURSIVE lstrip(_)
lstrip(text) ==
  IF text # << >> /\ Head(text) = " " THEN lstrip(Tail(text)) ELSE text

RECURSIVE rstrip(_)
rstrip(text) ==
  IF text # << >> /\ text[Len(text)] = " "
  THEN rstrip(SubSeq(text, 1, Len(text) - 1)) ELSE text

strip(text) == rstrip(lstrip(text))

\* Values a bearer-token secret is given.
TokenSecrets ==
  { Unset, Set(<< >>), Set(<< " " >>), Set(<< "x" >>), Set(<< " ", "x", " " >>) }

\* Values the credentials secret is given: texts that are blank, are not
\* JSON, are JSON but no object, are an object of no or another type, or
\* are a service-account object.
JsonTexts ==
  { << >>, << " " >>, << "{", "b", "a", "d" >>, << "[", "]" >>, << "{", "}" >>,
    << "{", "t", ":", "u", "}" >>, << "{", "t", ":", "s", "}" >>, << " ", "{", "t", ":", "s", "}" >> }

JsonSecrets == { Unset } \cup { Set(t) : t \in JsonTexts }

\* json.loads on these texts, blanks around the document being skipped:
\* the error, or the kind of value and its "type" member.
json_loads(text) ==
  LET doc == strip(text) IN
  CASE doc = << "[", "]" >> -> [error |-> FALSE, dict |-> FALSE, type |-> "none"]
    [] doc = << "{", "}" >> -> [error |-> FALSE, dict |-> TRUE, type |-> "none"]
    [] doc = << "{", "t", ":", "u", "}" >> -> [error |-> FALSE, dict |-> TRUE, type |-> "authorized_user"]
    [] doc = << "{", "t", ":", "s", "}" >> -> [error |-> FALSE, dict |-> TRUE, type |-> "service_account"]
    [] OTHER -> [error |-> TRUE, dict |-> FALSE, type |-> "none"]

\* `if token and len(token.strip()) > 0`
token_ok(secret) == secret.set /\ secret.value # << >> /\ Len(strip(secret.value)) > 0

\* The test of GOOGLE_APPLICATION_CREDENTIALS_JSON, and the line printed.
json_check(secret) ==
  IF secret.set /\ secret.value # << >> /\ Len(strip(secret.value)) > 0
  THEN LET json_data == json_loads(secret.value) IN
       IF json_data.error THEN [ok |-> FALSE, line |-> "JSON invalido"]
       ELSE IF json_data.dict /\ json_data.type = "service_account"
       THEN [ok |-> TRUE, line |-> "JSON cargado y valido"]
       ELSE [ok |-> FALSE, line |-> "JSON cargado pero estructura invalida"]
  ELSE [ok |-> FALSE, line |-> "JSON no se pudo leer o esta vacio"]

\* What the test query of test_bigquery meets.
BigQueryOutcomes == {"rows", "no_rows", "NotFound", "Forbidden", "Exception"}

\* test_bigquery: its return value and the line it prints.
test_bigquery(outcome) ==
  CASE outcome = "rows"      -> [ok |-> TRUE,  line |-> "BigQuery OK"]
    [] outcome = "no_rows"   -> [ok |-> FALSE, line |-> "BigQuery respondio sin filas"]
    [] outcome = "NotFound"  -> [ok |-> FALSE, line |-> "BigQuery: la tabla no existe"]
    [] outcome = "Forbidden" -> [ok |-> FALSE, line |-> "BigQuery: permisos insuficientes"]
    [] OTHER                 -> [ok |-> FALSE, line |-> "BigQuery: error inesperado"]

\* Variant: the BigQuery test is left out of the final test.
all_checks_sin_bigquery(res) ==
  /\ res.BEARER_TOKEN_1
  /\ res.BEARER_TOKEN_2
  /\ res.GOOGLE_APPLICATION_CREDENTIALS_JSON

\* The test that decides the exit status.
all_checks(res) ==
  /\ res.BEARER_TOKEN_1
  /\ res.BEARER_TOKEN_2
  /\ res.GOOGLE_APPLICATION_CREDENTIALS_JSON
  /\ res.BIGQUERY_TEST

\* The script is started in some environment.
InitValidate ==
  /\ MainInit
  /\ environ \in [BEARER_TOKEN_1 : TokenSecrets, BEARER_TOKEN_2 : TokenSecrets,
                   GOOGLE_APPLICATION_CREDENTIALS_JSON : JsonSecrets]
  /\ results = NoResults
  /\ vpc = "validate_secrets"
  /\ printed = << >>
  /\ exit_status = -1

\* results = validate_secrets()
ValidateSecrets ==
  /\ vpc = "validate_secrets"
  /\ LET t1 == token_ok(environ.BEARER_TOKEN_1)
         t2 == token_ok(environ.BEARER_TOKEN_2)
         js == json_check(environ.GOOGLE_APPLICATION_CREDENTIALS_JSON)
     IN  /\ results' = [results EXCEPT !.BEARER_TOKEN_1 = t1,
                                        !.BEARER_TOKEN_2 = t2,
                                        !.GOOGLE_APPLICATION_CREDENTIALS_JSON = js.ok]
         /\ printed' = printed \o
              << IF t1 THEN "BEARER_TOKEN_1 cargado" ELSE "BEARER_TOKEN_1 vacio",
                 IF t2 THEN "BEARER_TOKEN_2 cargado" ELSE "BEARER_TOKEN_2 vacio",
                 js.line >>
  /\ vpc' = "test_bigquery"
  /\ UNCHANGED <<environ, exit_status>>
  /\ UNCHANGED mvars

\* The BigQuery test, made when the credentials passed, else skipped.
TestBigQuery ==
  /\ vpc = "test_bigquery"
  /\ IF results.GOOGLE_APPLICATION_CREDENTIALS_JSON
     THEN \E outcome \in BigQueryOutcomes :
            /\ results' = [results EXCEPT !.BIGQUERY_TEST = test_bigquery(outcome).ok]
            /\ printed' = Append(printed, test_bigquery(outcome).line)
     ELSE /\ results' = results
          /\ printed' = Append(printed, "Omitiendo prueba de BigQuery")
  /\ vpc' = "exit"
  /\ UNCHANGED <<environ, exit_status>>
  /\ UNCHANGED mvars

\* The final test and sys.exit.
Exit ==
  /\ vpc = "exit"
  /\ IF all_checks(results)
     THEN /\ results' = [results EXCEPT !.status = "SUCCESS"]
          /\ printed' = Append(printed, "Todos los checks pasaron")
          /\ exit_status' = 0
     ELSE /\ results' = results
          /\ printed' = Append(printed, "Algunos checks fallaron")
          /\ exit_status' = 1
  /\ vpc' = "done"
  /\ UNCHANGED environ
  /\ UNCHANGED mvars

NextValidate == ValidateSecrets \/ TestBigQuery \/ Exit

SpecValidate == InitValidate /\ [][NextValidate]_vars

\* =================================================================== claims
\* ------------------------------------------------- reading a run's history
LastCall(r) == calls[r][Len(calls[r])]
LastLog(r) == log[r][Len(log[r])]

CallsOf(r, op) == { i \in DOMAIN calls[r] : calls[r][i].op = op }

Logged(r, msg) == \E i \in DOMAIN log[r] : log[r][i].msg = msg

\* The step taken is run r issuing the call op, with the given result.
Issues(r, op, result) ==
  calls'[r] = Append(calls[r], [op |-> op, idx |-> idx[r], result |-> result])

Ids(rows) == { rows[i].Id : i \in DOMAIN rows }

\* The run ended after the loop, no token having worked.
Exhausted(r) ==
  /\ Finished(r)
  /\ Logged(r, "Ninguno de los Bearer Tokens funciono")

\* ---------------------------------------------------------------------- C1
\* C1 (as written): once a load job of a run has failed, the run is over and
\* has failed: the failed load is the run's last call, the run is at no later
\* token, it ended with a raised error, and it reported no rows as loaded.
C1_WriteFailureEndsRun ==
  \A r \in Runs : \A i \in CallsOf(r, "load") :
    calls[r][i].result = "error" =>
      /\ i = Len(calls[r])
      /\ idx[r] = calls[r][i].idx
      /\ Finished(r)
      /\ ExitCode(r) # 0
      /\ ~ Logged(r, "tweets cargados correctamente")

\* ---------------------------------------------------------------------- C2
\* C2 (as written): a run in which every token was exhausted without a
\* usable batch ends with a non-zero exit status.
C2_ExhaustionIsFailure ==
  \A r \in Runs :
    (Exhausted(r) /\ \A i \in CallsOf(r, "search") : calls[r][i].result = "none")
      => ExitCode(r) # 0

\* ---------------------------------------------------------------------- C3
\* C3 (as written): no two rows of the table have the same Id.
C3_IdGloballyUnique ==
  \A i, j \in DOMAIN store : i # j => store[i].Id # store[j].Id

\* C3 (amended): a run whose query of existing Ids succeeded while the table
\* held at most LIMIT rows appends no row whose Id is already in the table.
C3_NoStoredIdAppended ==
  [][ \A r \in Runs :
        ( /\ pc[r] = "load"
          /\ Issues(r, "load", "ok")
          /\ LastCall(r).result = "ok"
          /\ Len(store) <= LIMIT )
        => /\ Len(store') > Len(store)
           /\ \A k \in (Len(store) + 1)..Len(store') :
                store'[k].Id \notin Ids(store) ]_vars

\* A run has appended rows to a table that already held some, after a query
\* that succeeded and returned Ids.
C3_Witness ==
  \E r \in Runs :
    /\ Len(calls[r]) >= 2
    /\ LastCall(r) = [op |-> "load", idx |-> idx[r], result |-> "ok"]
    /\ calls[r][Len(calls[r]) - 1].result = "ok"
    /\ ids_existentes[r] # {}
    /\ Len(store) <= LIMIT

\* ---------------------------------------------------------------------- C4
\* Runs q and r last received the same, non-empty, batch.
SameBatch(q, r) ==
  /\ ~ df[q].none
  /\ df[q].rows # << >>
  /\ df[q] = df[r]

\* The run ended with its batch in the table: loaded, or found all stored.
EndedStored(q) ==
  /\ Finished(q)
  /\ LastLog(q).msg \in {"tweets cargados correctamente", "Todos los tweets ya existen"}

\* C4 (as written): when a run's query succeeds and its batch is the batch
\* the run before it received, the run appends nothing and the table is
\* left as it was.
C4_SameBatchAppendsNothing ==
  [][ \A r \in Runs \ {1} :
        ( /\ Issues(r, "query", "ok")
          /\ Finished(r - 1)
          /\ SameBatch(r - 1, r) )
        => /\ df_nuevo'[r] = << >>
           /\ pc'[r] = "done"
           /\ store' = store ]_vars

\* C4 (amended): the same, when the run before ended with its batch in the
\* table (its load did not fail) and the table holds at most LIMIT rows.
C4_StoredBatchAppendsNothing ==
  [][ \A r \in Runs \ {1} :
        ( /\ Issues(r, "query", "ok")
          /\ EndedStored(r - 1)
          /\ SameBatch(r - 1, r)
          /\ Len(store) <= LIMIT )
        => /\ df_nuevo'[r] = << >>
           /\ pc'[r] = "done"
           /\ status'[r] = "returned"
           /\ store' = store ]_vars

\* The second of two runs that received the same batch of two posts has
\* queried the table and ended without a load, the first having loaded.
C4_Witness ==
  \E r \in Runs \ {1} :
    /\ EndedStored(r - 1)
    /\ SameBatch(r - 1, r)
    /\ Len(df[r].rows) = 2
    /\ Logged(r - 1, "tweets cargados correctamente")
    /\ Finished(r)
    /\ calls[r] # << >>
    /\ LastCall(r) = [op |-> "query", idx |-> idx[r], result |-> "ok"]
    /\ CallsOf(r, "load") = {}

\* ---------------------------------------------------------------------- C5
\* C5: after the query, df_nuevo holds exactly the rows of df whose Id is not
\* in ids_existentes, each at the place its rank among the kept rows gives
\* it; when ids_existentes is empty df_nuevo is df.
C5_FilterExact ==
  \A r \in Runs :
    (calls[r] # << >> /\ LastCall(r).op = "query") =>
      LET C == df[r].rows
          S == ids_existentes[r]
          N == df_nuevo[r]
          kept == { i \in DOMAIN C : C[i].Id \notin S }
      IN  /\ Len(N) = Cardinality(kept)
          /\ \A i \in kept : N[Cardinality({ j \in kept : j <= i })] = C[i]
          /\ (S = {} => N = C)

\* A batch of two posts, the first already stored: the second is handed to
\* the load.
C5_Witness ==
  \E r \in Runs :
    /\ pc[r] = "load"
    /\ Len(df[r].rows) = 2
    /\ df[r].rows[1].Id \in ids_existentes[r]
    /\ df_nuevo[r] = << df[r].rows[2] >>

\* ---------------------------------------------------------------------- C6
\* C6: a run none of whose searches returned a DataFrame has issued no query
\* and no load.
C6_NoStorageWithoutBatch ==
  \A r \in Runs :
    (\A i \in CallsOf(r, "search") : calls[r][i].result = "none")
      => CallsOf(r, "query") \cup CallsOf(r, "load") = {}

\* Both tokens were used, both searches failed, and the run is over.
C6_Witness ==
  \E r \in Runs :
    /\ Exhausted(r)
    /\ Len(calls[r]) = NumTokens
    /\ \A i \in DOMAIN calls[r] : calls[r][i].op = "search" /\ calls[r][i].result = "none"

\* ---------------------------------------------------------------------- C7
\* C7: when the search with the first token fails the run moves to the second
\* token and keeps running; when the search with the second token then
\* returns a batch, a load job that succeeds appends that batch's new rows
\* and the run ends normally, reporting them loaded.
C7_SecondTokenCompletes ==
  [][ \A r \in Runs :
        /\ (idx[r] = 1 /\ Issues(r, "search", "none"))
             => /\ pc'[r] = "token"
                /\ idx'[r] = 2
                /\ status'[r] = "running"
        /\ ( /\ Len(calls[r]) = 3
             /\ calls[r][1] = [op |-> "search", idx |-> 1, result |-> "none"]
             /\ calls[r][2] = [op |-> "search", idx |-> 2, result |-> "batch"]
             /\ Issues(r, "load", "ok") )
             => /\ store' = store \o df_nuevo[r]
                /\ Ids(df_nuevo[r]) \subseteq Ids(df[r].rows)
                /\ pc'[r] = "done"
                /\ ExitCode(r)' = 0
                /\ LastLog(r)'.msg = "tweets cargados correctamente" ]_vars

\* The first search failed, the second returned a batch, and it was loaded.
C7_Witness ==
  \E r \in Runs :
    /\ Len(calls[r]) = 4
    /\ calls[r][1] = [op |-> "search", idx |-> 1, result |-> "none"]
    /\ calls[r][2] = [op |-> "search", idx |-> 2, result |-> "batch"]
    /\ calls[r][4] = [op |-> "load", idx |-> 2, result |-> "ok"]
    /\ Finished(r)
    /\ status[r] = "returned"

\* ---------------------------------------------------------------------- C8
\* C8: a search that returned an empty batch is the last call of its run: the
\* run is over, ended normally, at the same token, and neither a query nor a
\* load followed.
C8_EmptyBatchEndsRun ==
  \A r \in Runs : \A i \in CallsOf(r, "search") :
    calls[r][i].result = "empty" =>
      /\ i = Len(calls[r])
      /\ Finished(r)
      /\ ExitCode(r) = 0
      /\ status[r] = "returned"
      /\ idx[r] = calls[r][i].idx
      /\ LastLog(r).msg = "No hay tweets nuevos para procesar"

\* The first search of a run returned an empty batch.
C8_Witness ==
  \E r \in Runs :
    /\ calls[r] = << [op |-> "search", idx |-> 1, result |-> "empty"] >>
    /\ idx[r] = 1

\* ---------------------------------------------------------------------- C9
\* C9: when the query leaves every row of a non-empty batch in the existing
\* Ids, the query is the run's last call: the run is over, ended normally
\* with "all exist", and has appended nothing.
C9_NothingNewEndsRun ==
  \A r \in Runs :
    ( /\ calls[r] # << >>
      /\ LastCall(r).op = "query"
      /\ df[r].rows # << >>
      /\ Ids(df[r].rows) \subseteq ids_existentes[r] )
    => /\ Finished(r)
       /\ status[r] = "returned"
       /\ ExitCode(r) = 0
       /\ LastLog(r).msg = "Todos los tweets ya existen"
       /\ \A i \in CallsOf(r, "load") : calls[r][i].result = "error"

\* All the rows of a batch were found stored.
C9_Witness ==
  \E r \in Runs :
    /\ Finished(r)
    /\ calls[r] # << >>
    /\ LastCall(r).op = "query"
    /\ Len(df[r].rows) = 2
    /\ Ids(df[r].rows) \subseteq ids_existentes[r]
    /\ store # << >>

\* --------------------------------------------------------------------- C10
\* C10: when the query of existing Ids fails, ids_existentes is empty,
\* df_nuevo is the whole of df and the run goes on to the load; when that
\* load job succeeds every row of df is appended and the run ends normally.
C10_ReadFailureLoadsAll ==
  [][ \A r \in Runs :
        /\ Issues(r, "query", "error")
             => /\ ids_existentes'[r] = {}
                /\ df_nuevo'[r] = df[r].rows
                /\ pc'[r] = "load"
                /\ status'[r] = "running"
        /\ ( /\ pc[r] = "load"
             /\ LastCall(r).result = "error"
             /\ Issues(r, "load", "ok") )
             => /\ store' = store \o df[r].rows
                /\ pc'[r] = "done"
                /\ ExitCode(r)' = 0 ]_vars

\* A query failed on a table that held the batch's Ids, and the whole batch
\* was appended again.
C10_Witness ==
  \E r \in Runs :
    /\ Len(calls[r]) >= 2
    /\ LastCall(r) = [op |-> "load", idx |-> idx[r], result |-> "ok"]
    /\ calls[r][Len(calls[r]) - 1].result = "error"
    /\ Len(store) >= 2 * Len(df[r].rows)
    /\ Finished(r)

\* --------------------------------------------------------------------- C11
\* The run's last search returned a DataFrame built from a response.
HasBatch(r) == ~ df[r].none /\ tweets[r].kind = "response"

\* The posts of a page that are the first of their id, in the page's order.
RECURSIVE FirstOccurrences(_, _)
FirstOccurrences(data, seen) ==
  IF data = << >> THEN << >>
  ELSE IF Head(data).id \in seen THEN FirstOccurrences(Tail(data), seen)
  ELSE << Head(data) >> \o FirstOccurrences(Tail(data), seen \cup { Head(data).id })

\* C11 (as written): the records of a batch have pairwise distinct Ids, and
\* they are the records of the first occurrence of each post, in the order
\* the API gave them.
C11_BatchIdsDistinct ==
  \A r \in Runs :
    HasBatch(r) =>
      LET rows == df[r].rows
          firsts == FirstOccurrences(tweets[r].data, {})
      IN  /\ \A i, j \in DOMAIN rows : i # j => rows[i].Id # rows[j].Id
          /\ Len(rows) = Len(firsts)
          /\ \A i \in DOMAIN rows : rows[i].Id = str(firsts[i].id)

\* --------------------------------------------------------------------- C12
\* The cap on accumulated results is more than one page (200 against pages
\* of 100).
ResultCap == 2 * MaxResults

\* C12 (as written): a search stops only when the API reports no further
\* page or the cap is reached: a batch whose response carried a next_token
\* holds at least ResultCap posts.
C12_SearchPagesToTheEnd ==
  \A r \in Runs :
    (HasBatch(r) /\ tweets[r].next_token) => Len(df[r].rows) >= ResultCap

\* --------------------------------------------------------------------- C13
\* The user records of the includes that have the given id.
Resolved(author_id) == { u \in IncludedUsers : u.id = author_id }

C14_AppendOnly ==
  [][ /\ Len(store') >= Len(store)
      /\ SubSeq(store', 1, Len(store)) = store ]_vars

\* A load job has appended rows to a table that held rows of an earlier run.
C14_Witness ==
  \E r \in Runs :
    /\ calls[r] # << >>
    /\ LastCall(r) = [op |-> "load", idx |-> idx[r], result |-> "ok"]
    /\ df_nuevo[r] # << >>
    /\ Len(store) > Len(df_nuevo[r])
    /\ SubSeq(store, Len(store) - Len(df_nuevo[r]) + 1, Len(store)) = df_nuevo[r]

\* --------------------------------------------------------------------- C15
\* Number of rows of the table with the given Id.
Copies(id) == Cardinality({ i \in DOMAIN store : store[i].Id = id })

\* The run's last two calls are a query that succeeded and a load job that
\* succeeded.
ReadThenLoaded(r) ==
  /\ Len(calls[r]) >= 2
  /\ LastCall(r) = [op |-> "load", idx |-> idx[r], result |-> "ok"]
  /\ calls[r][Len(calls[r]) - 1] = [op |-> "query", idx |-> idx[r], result |-> "ok"]

\* C15: the load checks nothing: when two runs have each loaded, after a
\* query that succeeded, rows they found new, an Id both found new is in the
\* table at least twice.
C15_OverlapDuplicates ==
  \A q, r \in Runs :
    (q # r /\ ReadThenLoaded(q) /\ ReadThenLoaded(r)) =>
      \A id \in Ids(df_nuevo[q]) \cap Ids(df_nuevo[r]) : Copies(id) >= 2

\* Two runs read the table while it was empty, both queries succeeding, and
\* both then loaded the same post: the table holds it twice.
C15_Witness ==
  \E q, r \in Runs :
    /\ q # r
    /\ ReadThenLoaded(q) /\ ReadThenLoaded(r)
    /\ ids_existentes[q] = {} /\ ids_existentes[r] = {}
    /\ \E id \in Ids(df_nuevo[q]) \cap Ids(df_nuevo[r]) : Copies(id) >= 2
    /\ Len(store) <= LIMIT

\* --------------------------------------------------------------------- C16
\* The records main emits when it consults a token source: the source gave
\* a token that is now used, or gave none.
IsTokenRec(rec) == rec.msg \in {"Usando Bearer Token", "No se pudo cargar el token"}

TokenLog(r) == SelectSeq(log[r], IsTokenRec)

\* C16: the k-th source a run consults is source k of the list, so each is
\* consulted at most once and in order; every call of the run is made with a
\* source that gave a token; and the searches of a run are made with
\* strictly later sources each time, so no source is searched twice.
C16_TokensInOrderOnce ==
  \A r \in Runs :
    LET T == TokenLog(r) IN
    /\ Len(T) <= NumTokens
    /\ \A k \in DOMAIN T : T[k].idx = k
    /\ \A i \in DOMAIN calls[r] :
         /\ calls[r][i].idx \in DOMAIN T
         /\ T[calls[r][i].idx].msg = "Usando Bearer Token"
    /\ \A i, j \in CallsOf(r, "search") : i < j => calls[r][i].idx < calls[r][j].idx

\* The first source gave no token and no call was made with it; the second
\* was then used for a search that failed, and was not tried again.
C16_Witness ==
  \E r \in Runs :
    /\ Finished(r)
    /\ Len(TokenLog(r)) = 2
    /\ TokenLog(r)[1].msg = "No se pudo cargar el token"
    /\ calls[r] = << [op |-> "search", idx |-> 2, result |-> "none"] >>

\* --------------------------------------------------------------------- C17
\* main is under way in run r.
InMain(r) == pc[r] \in {"token", "search", "query", "load"}

\* main has ended in one of its outcomes: rows loaded, nothing to do (no
\* posts, or all stored), or no token worked.
TerminalOutcome(r) ==
  /\ Finished(r)
  /\ status[r] = "returned"
  /\ LastLog(r).msg \in { "tweets cargados correctamente",
                          "No hay tweets nuevos para procesar",
                          "Todos los tweets ya existen",
                          "Ninguno de los Bearer Tokens funciono" }

\* C17: a run whose main is under way reaches one of the outcomes of main,
\* having consulted at most NumTokens sources and searched at most NumTokens
\* times.
C17_RunTerminates ==
  \A r \in Runs :
    InMain(r) ~> ( /\ TerminalOutcome(r)
                   /\ Len(TokenLog(r)) <= NumTokens
                   /\ Cardinality(CallsOf(r, "search")) <= NumTokens )

\* A run ended with rows loaded at its second token, the load job having
\* failed at the first.
C17_Witness ==
  \E r \in Runs :
    /\ TerminalOutcome(r)
    /\ Len(calls[r]) = 6
    /\ calls[r][3] = [op |-> "load", idx |-> 1, result |-> "error"]
    /\ calls[r][6] = [op |-> "load", idx |-> 2, result |-> "ok"]

\* --------------------------------------------------------------------- C18
\* Call i of run r completed the processing of a batch: a load job that
\* succeeded, a search that returned no posts, or a query after which no
\* load job was started.
Completes(r, i) ==
  \/ calls[r][i].op = "load" /\ calls[r][i].result = "ok"
  \/ calls[r][i].op = "search" /\ calls[r][i].result = "empty"
  \/ /\ calls[r][i].op = "query"
     /\ IF i = Len(calls[r]) THEN pc[r] # "load" ELSE calls[r][i + 1].op # "load"

\* C18: a call that completes the processing of a batch is the last call of
\* its run: the run has ended normally, at the token of that call, no later
\* source was consulted; and a run has at most one load job that succeeded.
C18_StopsAtFirstCompleted ==
  \A r \in Runs :
    /\ Cardinality({ i \in CallsOf(r, "load") : calls[r][i].result = "ok" }) <= 1
    /\ \A i \in DOMAIN calls[r] :
         Completes(r, i) =>
           /\ i = Len(calls[r])
           /\ Finished(r)
           /\ status[r] = "returned"
           /\ idx[r] = calls[r][i].idx
           /\ Len(TokenLog(r)) = calls[r][i].idx

\* A run found its whole batch stored with the first token: it ended there,
\* the second source never consulted.
C18_Witness ==
  \E r \in Runs :
    /\ Finished(r)
    /\ Len(calls[r]) = 2
    /\ calls[r][2] = [op |-> "query", idx |-> 1, result |-> "ok"]
    /\ Len(TokenLog(r)) = 1
    /\ NumTokens > 1

\* --------------------------------------------------------------------- C19
\* test_bigquery was called: one of its lines was printed.
BigQueryTested ==
  \E i \in DOMAIN printed :
    printed[i] \in { test_bigquery(o).line : o \in BigQueryOutcomes }

\* C19: the script exits with 0 or 1; with 0 exactly when the two tokens,
\* the credentials JSON and the BigQuery test are all marked passed in
\* results; and test_bigquery was called only if the credentials JSON is
\* marked passed.
C19_ExitStatus ==
  /\ vpc = "done" =>
       /\ exit_status \in {0, 1}
       /\ exit_status = 0 <=>
            /\ results.BEARER_TOKEN_1
            /\ results.BEARER_TOKEN_2
            /\ results.GOOGLE_APPLICATION_CREDENTIALS_JSON
            /\ results.BIGQUERY_TEST
  /\ vpc # "done" => exit_status = -1
  /\ BigQueryTested => results.GOOGLE_APPLICATION_CREDENTIALS_JSON
  /\ results.BIGQUERY_TEST => BigQueryTested

\* The script has exited with 0 after a BigQuery test that passed.
C19_Witness ==
  /\ vpc = "done"
  /\ exit_status = 0
  /\ BigQueryTested
  /\ results.status = "SUCCESS"

====
